---- MODULE Spec2Model ----
(***************************************************************************)
(* Model of ScopeDevice (openhantek/src/usb/scopedevice.cpp): the USB      *)
(* transport of one oscilloscope -- connect, disconnect, destruction and   *)
(* the retrying control / bulk / multi-chunk bulk transfers.               *)
(*                                                                         *)
(* One worker thread issues the calls serially (pc); a second thread may   *)
(* set the stop flag at any time (stopSampling).  Every underlying libusb  *)
(* transfer is one step, its result is chosen by the environment.          *)
(***************************************************************************)
EXTENDS Integers, Sequences, FiniteSets, TLC

(* ---------------------------------------------------------------- bounds *)
MaxCalls == 3          \* API calls issued in one behaviour
MaxAttempts == 3       \* largest bounded attempt count passed to a transfer
MaxChunks == 3         \* chunked reads request up to MaxChunks full chunks
MaxMultiAttempts == 2  \* largest attempt count passed to bulkReadMulti
MaxDepth == 2          \* longest port path enumerated in full

(* ------------------------------------------------------ libusb constants *)
LIBUSB_SUCCESS == 0
LIBUSB_ERROR_IO == -1
LIBUSB_ERROR_NO_DEVICE == -4
LIBUSB_ERROR_NOT_FOUND == -5
LIBUSB_ERROR_BUSY == -6
LIBUSB_ERROR_TIMEOUT == -7
LIBUSB_CLASS_VENDOR_SPEC == "LIBUSB_CLASS_VENDOR_SPEC"

(* the endpoint addresses and the timeout unit are macros of scopedevice.h; *)
(* only the proportionality of the timeout matters, not its unit           *)
HANTEK_EP_OUT == "HANTEK_EP_OUT"
HANTEK_EP_IN == "HANTEK_EP_IN"
HANTEK_TIMEOUT_MULTI == 100

packetLength == 512 * 78

NULL == "nullptr"
OPEN == "handle"
DEV == "device"

U16(x) == x % 65536      \* uint16_t( x )
Min(a, b) == IF a < b THEN a ELSE b

VARIABLES
    realHW,           \* FALSE for the demo device
    osWin,            \* the build defines Q_OS_WIN
    model,            \* expected vendorID / productID / firmwareVersion
    descriptor,       \* idVendor / idProduct / bcdDevice of the device
    life,             \* "alive" | "destroyed" | "crashed"
    device,           \* libusb_device *
    handle,           \* libusb_device_handle *
    nInterface,       \* claimed interface number, -1 = none
    inPacketLength,
    outPacketLength,
    disconnected,
    stopTransfer,
    openHandles,      \* libusb handles opened and not yet closed
    unrefCalls,       \* libusb_unref_device calls so far
    emitted,          \* deviceDisconnected signals emitted so far
    transitions,      \* changes of isConnected() from true to false so far
    calls,            \* API calls started so far
    pc,               \* position of the worker thread
    bt,               \* frame of the running bulkTransfer
    ct,               \* frame of the running controlTransfer
    brm,              \* frame of the running bulkReadMulti
    received,         \* the caller's variable bound to "unsigned &received"
                      \* by the bulkReadMulti in progress / returned last
    call,             \* the API call in progress / returned last
    probe             \* inputs and results of the object-independent functions

vars == <<realHW, osWin, model, descriptor, life, device, handle, nInterface,
          inPacketLength, outPacketLength, disconnected, stopTransfer,
          openHandles, unrefCalls, emitted, transitions, calls, pc, bt, ct,
          brm, received, call, probe>>

config == <<realHW, osWin, model, descriptor, probe>>
object == <<device, handle, nInterface, inPacketLength, outPacketLength,
            disconnected>>
driver == <<openHandles, unrefCalls, emitted, transitions>>
frames == <<bt, ct, brm>>

(* ------------------------------------------------------------- the model *)
ModelRec == [vendorID |-> 1205, productID |-> 24610, firmwareVersion |-> 512]

Descriptors ==
    [idVendor : {1205, 1204}, idProduct : {24610, 24609},
     bcdDevice : {511, 512}]

isDemoDevice == ~realHW

IsConn(h, d) == isDemoDevice \/ (~d /\ h # NULL)

isConnected == IsConn(handle, disconnected)

(* needsFirmware also rejecting the minimum firmware version itself *)
needsFirmware_AtMost ==
    \/ descriptor.idProduct # model.productID
    \/ descriptor.idVendor # model.vendorID
    \/ descriptor.bcdDevice <= model.firmwareVersion

needsFirmware ==
    \/ descriptor.idProduct # model.productID
    \/ descriptor.idVendor # model.vendorID
    \/ descriptor.bcdDevice < model.firmwareVersion

(* ---------------------------------------------------- computeUSBdeviceID *)
(* UniqueUSBid is a 64-bit unsigned value; it is kept as its 16            *)
(* hexadecimal digits, most significant first.                             *)
treeSize == 7

Zero64 == [i \in 1..16 |-> 0]

(* hexadecimal digit k (0 = lowest) of the non-negative value v *)
HexDigit(v, k) == (v \div (16 ^ k)) % 16

RECURSIVE BitOr(_, _)
BitOr(a, b) ==
    IF a = 0 THEN b
    ELSE IF b = 0 THEN a
    ELSE (IF a % 2 = 1 \/ b % 2 = 1 THEN 1 ELSE 0)
         + 2 * BitOr(a \div 2, b \div 2)

(* uid |= v for a v of at most 16 bits *)
OrInto(uid, v) ==
    [i \in 1..16 |-> IF i > 12 THEN BitOr(uid[i], HexDigit(v, 16 - i))
                                ELSE uid[i]]

(* uid <<= 4 and uid <<= 16: the top digits fall off *)
Shl4(uid) == Tail(uid) \o <<0>>
Shl16(uid) == Shl4(Shl4(Shl4(Shl4(uid))))

(* the loop over the port tree, from index iii on; nPorts is the length of *)
(* the path libusb_get_port_numbers reports                                *)
RECURSIVE PortLoop(_, _, _)
PortLoop(uid, ports, iii) ==
    IF iii >= treeSize THEN uid
    ELSE LET s == Shl4(uid)
         IN PortLoop(IF iii < Len(ports)
                     THEN OrInto(s, ports[iii + 1] % 16) ELSE s,
                     ports, iii + 1)

(* computeUSBdeviceID leaving the firmware version out of the identifier *)
computeUSBdeviceID_NoFirmware(dev) ==
    LET bus == OrInto(Zero64, dev.bus % 16)
        tree == PortLoop(bus, dev.ports, 0)
        vid == OrInto(Shl16(tree), dev.idVendor)
    IN Shl16(vid)

(* dev: bus number, port path and device descriptor of a libusb_device *)
computeUSBdeviceID(dev) ==
    LET bus == OrInto(Zero64, dev.bus % 16)
        tree == PortLoop(bus, dev.ports, 0)
        vid == OrInto(Shl16(tree), dev.idVendor)
    IN OrInto(Shl16(vid), dev.bcdDevice)

(* the devices the functions are applied to: bus numbers and port numbers  *)
(* are uint8_t, a port path has up to treeSize ports, numbered from 1      *)
Buses == {1, 2, 17}
Ports == {1, 17}
RECURSIVE Paths(_)
Paths(n) ==
    IF n = 0 THEN {<<>>}
    ELSE Paths(n - 1)
         \cup {Append(q, x) : q \in {r \in Paths(n - 1) : Len(r) = n - 1},
                              x \in Ports}
PortPaths ==
    Paths(MaxDepth) \cup {<<1, 1, 1, 1, 1, 1, 1>>, <<1, 1, 1, 1, 1, 1, 2>>}
UsbDevices ==
    [bus : Buses, ports : PortPaths, idVendor : {1205, 1204},
     bcdDevice : {511, 512}]
WideDescriptors ==
    [idVendor : {1205, 1204}, idProduct : {24610, 24609},
     bcdDevice : {511, 512, 513}]

NoDevice == [bus |-> 1, ports |-> <<>>, idVendor |-> 1205, bcdDevice |-> 512]
NoProbe == [mode |-> "none", a |-> NoDevice, b |-> NoDevice, done |-> FALSE,
            uidA |-> Zero64, uidB |-> Zero64, fw |-> FALSE]

(* hasStopped() lives in scopedevice.h: the check of the "stop requested"  *)
(* flag, a read of stopTransfer                                            *)
hasStopped == stopTransfer

(* no underlying attempt has answered anything but a timeout yet *)
NoOutcome == [code |-> 1, n |-> 0]

(* `received` before bulkReadMulti has written it: whatever the caller had *)
NotWritten == -1

(* The record of one API call: its arguments (attempts, length, small),    *)
(* the state it found (pre = isConnected(), preHandle, preStop; again =    *)
(* the call before was the same operation), what it did (emits, usb =      *)
(* underlying transfers, closes, releases, unrefs; log = the bulkTransfers *)
(* of a bulkReadMulti), what the device answered (allTimeout; final = the  *)
(* first answer that was no timeout, finalAt = the attempt that got it;    *)
(* stopMark = bulkTransfers issued when the stop flag was set during a     *)
(* bulkReadMulti) and what it returned (done, ret).                        *)
NoCall ==
    [op |-> "none", again |-> FALSE, done |-> TRUE, ret |-> 0, pre |-> FALSE,
     preHandle |-> NULL, preStop |-> FALSE, attempts |-> 0, length |-> 0,
     small |-> FALSE,
     emits |-> 0, usb |-> 0, closes |-> 0, releases |-> 0, unrefs |-> 0,
     allTimeout |-> TRUE, final |-> NoOutcome, finalAt |-> 0,
     stopMark |-> -1, log |-> <<>>]

NewCall(op) ==
    [NoCall EXCEPT !.op = op, !.again = (op = call.op), !.done = FALSE,
                   !.pre = isConnected, !.preHandle = handle,
                   !.preStop = stopTransfer]

NoBT == [length |-> 0, attempts |-> 0, attempt |-> 0, errorCode |-> 0,
         transferred |-> 0, cont |-> "none", off |-> 0, timeout |-> 0]
NoCT == [length |-> 0, attempts |-> 0, attempt |-> 0, errorCode |-> 0]
NoBRM == [length |-> 0, attempts |-> 0, packet |-> 0, retCode |-> 0]

(* The state after construction.  The members without an initializer in   *)
(* the constructors start as the data model describes a device created    *)
(* unopened: no handle, no claimed interface (-1), disconnected, no stop  *)
(* request.                                                               *)
(* the fields as the constructors leave them *)
Constructed ==
    /\ model = ModelRec
    /\ life = "alive"
    /\ device = IF realHW THEN DEV ELSE NULL
    /\ handle = NULL
    /\ nInterface = -1
    /\ inPacketLength = 0
    /\ outPacketLength = 0
    /\ disconnected = TRUE
    /\ stopTransfer = FALSE
    /\ openHandles = 0
    /\ unrefCalls = 0
    /\ emitted = 0
    /\ transitions = 0
    /\ calls = 0
    /\ pc = "idle"
    /\ bt = NoBT
    /\ ct = NoCT
    /\ brm = NoBRM
    /\ received = NotWritten
    /\ call = NoCall

Init ==
    /\ realHW \in BOOLEAN
    /\ osWin \in BOOLEAN
    /\ descriptor \in Descriptors
    /\ probe = NoProbe
    /\ Constructed

CanCall == life = "alive" /\ pc = "idle" /\ calls < MaxCalls

(* ------------------------------------------------- disconnectFromDevice *)
(* disconnectFromDevice without its early return for a null device *)
disconnectFromDevice_NoDeviceTest ==
    [disconnected |-> TRUE, handle |-> NULL,
     nInterface |-> IF handle # NULL THEN -1 ELSE nInterface,
     releases |-> IF handle # NULL /\ nInterface # -1 THEN 1 ELSE 0,
     closes |-> IF handle # NULL THEN 1 ELSE 0,
     unrefs |-> IF osWin THEN 0 ELSE 1,
     emits |-> 1]

(* The values the fields have after disconnectFromDevice(), and what it   *)
(* released on the way.                                                   *)
disconnectFromDevice ==
    IF device = NULL
    THEN [disconnected |-> TRUE, handle |-> handle, nInterface |-> nInterface,
          releases |-> 0, closes |-> 0, unrefs |-> 0, emits |-> 0]
    ELSE [disconnected |-> TRUE, handle |-> NULL,
          nInterface |-> IF handle # NULL THEN -1 ELSE nInterface,
          releases |-> IF handle # NULL /\ nInterface # -1 THEN 1 ELSE 0,
          closes |-> IF handle # NULL THEN 1 ELSE 0,
          unrefs |-> IF osWin THEN 0 ELSE 1,
          emits |-> 1]

(* the assignments of one run of disconnectFromDevice, d its result *)
Disconnect(d) ==
    /\ disconnected' = d.disconnected
    /\ handle' = d.handle
    /\ nInterface' = d.nInterface
    /\ openHandles' = openHandles - d.closes
    /\ emitted' = emitted + d.emits
    /\ transitions' = transitions
                      + (IF isConnected /\ ~IsConn(d.handle, d.disconnected)
                         THEN 1 ELSE 0)

Disconnecting(c, d) ==
    [c EXCEPT !.emits = @ + d.emits, !.closes = @ + d.closes,
              !.releases = @ + d.releases, !.unrefs = @ + d.unrefs]

DisconnectCall ==
    /\ CanCall
    /\ calls' = calls + 1
    /\ LET d == disconnectFromDevice
       IN /\ Disconnect(d)
          /\ unrefCalls' = unrefCalls + d.unrefs
          /\ call' = [Disconnecting(NewCall("disconnectFromDevice"), d)
                      EXCEPT !.done = TRUE]
    /\ UNCHANGED <<config, life, device, inPacketLength, outPacketLength,
                   stopTransfer, pc, frames>>
    /\ received' = NotWritten

(* ------------------------------------------------------- connectDevice() *)
(* The configuration descriptor the device reports: a sequence of          *)
(* interfaces, each with its first altsetting's class triple, number and   *)
(* endpoints.                                                              *)
Iface(alts, cls, sub, num, eps) ==
    [num_altsetting |-> alts, bInterfaceClass |-> cls,
     bInterfaceSubClass |-> sub, bInterfaceProtocol |-> 0,
     bInterfaceNumber |-> num, endpoint |-> eps]

Ep(addr, size) == [bEndpointAddress |-> addr, wMaxPacketSize |-> size]

Configs ==
    { <<>>,
      << Iface(0, LIBUSB_CLASS_VENDOR_SPEC, 0, 0, <<Ep(HANTEK_EP_IN, 512)>>),
         Iface(1, "LIBUSB_CLASS_HID", 0, 1, <<>>) >>,
      << Iface(1, "LIBUSB_CLASS_HID", 0, 0, <<>>),
         Iface(1, LIBUSB_CLASS_VENDOR_SPEC, 0, 1,
               <<Ep(HANTEK_EP_OUT, 512), Ep("EP1_IN", 8),
                 Ep(HANTEK_EP_IN, 512)>>),
         Iface(1, LIBUSB_CLASS_VENDOR_SPEC, 0, 2, <<Ep(HANTEK_EP_IN, 64)>>) >>,
      << Iface(1, LIBUSB_CLASS_VENDOR_SPEC, 0, 0, <<Ep(HANTEK_EP_OUT, 64)>>) >>,
      << Iface(1, LIBUSB_CLASS_VENDOR_SPEC, 1, 0, <<Ep(HANTEK_EP_IN, 512)>>) >> }

OpenResults == {LIBUSB_SUCCESS, LIBUSB_ERROR_NO_DEVICE, LIBUSB_ERROR_BUSY}
ClaimResults == {LIBUSB_SUCCESS, LIBUSB_ERROR_BUSY}

(* index of the interface the scan of connectDevice stops at, 0 = none *)
MatchingInterface(cfg) ==
    LET m == { i \in 1..Len(cfg) :
                 /\ cfg[i].num_altsetting >= 1
                 /\ cfg[i].bInterfaceClass = LIBUSB_CLASS_VENDOR_SPEC
                 /\ cfg[i].bInterfaceSubClass = 0
                 /\ cfg[i].bInterfaceProtocol = 0 }
    IN IF m = {} THEN 0 ELSE CHOOSE i \in m : \A j \in m : i <= j

(* wMaxPacketSize of the last endpoint with this address, 0 if none *)
PacketSize(eps, addr) ==
    LET m == { i \in 1..Len(eps) : eps[i].bEndpointAddress = addr }
    IN IF m = {} THEN 0
       ELSE eps[CHOOSE i \in m : \A j \in m : i >= j].wMaxPacketSize

(* claimInterface: the error code and the fields it leaves *)
claimInterface(ifd, claimResult) ==
    IF claimResult < 0
    THEN [errorCode |-> claimResult, nInterface |-> nInterface,
          inPacketLength |-> inPacketLength,
          outPacketLength |-> outPacketLength]
    ELSE [errorCode |-> LIBUSB_SUCCESS, nInterface |-> ifd.bInterfaceNumber,
          inPacketLength |-> PacketSize(ifd.endpoint, HANTEK_EP_IN),
          outPacketLength |-> PacketSize(ifd.endpoint, HANTEK_EP_OUT)]

(* connectDevice without its test of needsFirmware() *)
connectDevice_NoFirmwareCheck(openResult, cfg, claimResult) ==
    LET same == [ret |-> 0, handle |-> handle, nInterface |-> nInterface,
                 inPacketLength |-> inPacketLength,
                 outPacketLength |-> outPacketLength,
                 disconnected |-> disconnected, opens |-> 0]
        i == MatchingInterface(cfg)
        c == IF i = 0
             THEN [errorCode |-> LIBUSB_ERROR_NOT_FOUND,
                   nInterface |-> nInterface,
                   inPacketLength |-> inPacketLength,
                   outPacketLength |-> outPacketLength]
             ELSE claimInterface(cfg[i], claimResult)
    IN IF isConnected THEN [same EXCEPT !.ret = 1]
       ELSE IF openResult # LIBUSB_SUCCESS THEN [same EXCEPT !.handle = NULL]
       ELSE [ret |-> IF c.errorCode # LIBUSB_SUCCESS THEN 0 ELSE 1,
             handle |-> OPEN, nInterface |-> c.nInterface,
             inPacketLength |-> c.inPacketLength,
             outPacketLength |-> c.outPacketLength,
             disconnected |-> IF c.errorCode # LIBUSB_SUCCESS
                              THEN disconnected ELSE FALSE,
             opens |-> 1]

(* connectDevice: the return value and the fields it leaves *)
connectDevice(openResult, cfg, claimResult) ==
    LET same == [ret |-> 0, handle |-> handle, nInterface |-> nInterface,
                 inPacketLength |-> inPacketLength,
                 outPacketLength |-> outPacketLength,
                 disconnected |-> disconnected, opens |-> 0]
        i == MatchingInterface(cfg)
        c == IF i = 0
             THEN [errorCode |-> LIBUSB_ERROR_NOT_FOUND,
                   nInterface |-> nInterface,
                   inPacketLength |-> inPacketLength,
                   outPacketLength |-> outPacketLength]
             ELSE claimInterface(cfg[i], claimResult)
    IN IF needsFirmware THEN same
       ELSE IF isConnected THEN [same EXCEPT !.ret = 1]
       ELSE IF openResult # LIBUSB_SUCCESS THEN [same EXCEPT !.handle = NULL]
       ELSE [ret |-> IF c.errorCode # LIBUSB_SUCCESS THEN 0 ELSE 1,
             handle |-> OPEN, nInterface |-> c.nInterface,
             inPacketLength |-> c.inPacketLength,
             outPacketLength |-> c.outPacketLength,
             disconnected |-> IF c.errorCode # LIBUSB_SUCCESS
                              THEN disconnected ELSE FALSE,
             opens |-> 1]

(* connectDevice gets as far as libusb_open *)
Opens == ~needsFirmware /\ ~isConnected

ConnectCall ==
    /\ CanCall
    /\ calls' = calls + 1
    /\ \E openResult \in (IF Opens THEN OpenResults ELSE {LIBUSB_SUCCESS}) :
       \E cfg \in (IF Opens /\ openResult = LIBUSB_SUCCESS
                   THEN Configs ELSE {<<>>}) :
       \E claimResult \in (IF MatchingInterface(cfg) # 0
                           THEN ClaimResults ELSE {LIBUSB_SUCCESS}) :
          LET r == connectDevice(openResult, cfg, claimResult)
          IN /\ handle' = r.handle
             /\ nInterface' = r.nInterface
             /\ inPacketLength' = r.inPacketLength
             /\ outPacketLength' = r.outPacketLength
             /\ disconnected' = r.disconnected
             /\ openHandles' = openHandles + r.opens
             /\ call' = [NewCall("connectDevice")
                         EXCEPT !.done = TRUE, !.ret = r.ret]
    /\ UNCHANGED <<config, life, device, stopTransfer, unrefCalls, emitted,
                   transitions, pc, frames>>
    /\ received' = NotWritten

(* ------------------------------------------------------- bulkTransfer() *)
(* What one libusb_bulk_transfer / libusb_control_transfer can answer to a *)
(* request of n bytes: a byte count, a timeout (possibly with a partial    *)
(* count), the device gone, or another error.                              *)
Outcomes(n) ==
    {[code |-> LIBUSB_SUCCESS, n |-> m] : m \in {n, n - 1, 0} \cap (0..n)}
    \cup {[code |-> LIBUSB_ERROR_TIMEOUT, n |-> m] : m \in {0, n}}
    \cup {[code |-> e, n |-> 0] : e \in {LIBUSB_ERROR_NO_DEVICE, LIBUSB_ERROR_IO}}

(* what an attempt hands back: the error code, or else the byte count *)
OutcomeValue(o) == IF o.code < 0 THEN o.code ELSE o.n

AttemptCounts == (0..MaxAttempts) \cup {-1}
BulkLengths == {0, 64}

Keep ==
    [disconnected |-> disconnected, handle |-> handle,
     nInterface |-> nInterface, releases |-> 0, closes |-> 0, unrefs |-> 0,
     emits |-> 0]

(* bulkTransfer entered without its test of the handle *)
NoHandle_Unchecked == FALSE

(* the test at the head of bulkTransfer: !this->handle *)
NoHandle == handle = NULL

(* the test at the head of controlTransfer and bulkReadMulti *)
NoHandleOrDisconnected == handle = NULL \/ disconnected

StartBulk(length, attempts, cont, off, timeout) ==
    [length |-> length, attempts |-> attempts, attempt |-> 0,
     errorCode |-> LIBUSB_ERROR_TIMEOUT, transferred |-> 0, cont |-> cont,
     off |-> off, timeout |-> timeout]

(* the retry loop with an off-by-one bound: one attempt too many *)
Retry_OffByOne(attempt, attempts, errorCode) ==
    (attempt <= attempts \/ attempts = -1) /\ errorCode = LIBUSB_ERROR_TIMEOUT

(* the retry loop retrying after every error, not only after a timeout *)
Retry_AnyError(attempt, attempts, errorCode) ==
    (attempt < attempts \/ attempts = -1) /\ errorCode < 0

(* the retry loop without the unbounded case attempts == -1 *)
Retry_Bounded(attempt, attempts, errorCode) ==
    attempt < attempts /\ errorCode = LIBUSB_ERROR_TIMEOUT

(* the condition of the retry loop *)
Retry(attempt, attempts, errorCode) ==
    (attempt < attempts \/ attempts = -1) /\ errorCode = LIBUSB_ERROR_TIMEOUT

(* ++attempt; with attempts == -1 the counter is never compared, so it is  *)
(* kept at MaxAttempts once it gets there                                  *)
NextAttempt(attempt, attempts) ==
    IF attempts = -1 /\ attempt >= MaxAttempts THEN attempt ELSE attempt + 1

(* the record of the call after one more underlying attempt with outcome o *)
Attempted(c, o, attempts) ==
    [c EXCEPT !.usb = NextAttempt(@, attempts),
              !.allTimeout = @ /\ o.code = LIBUSB_ERROR_TIMEOUT,
              !.final = IF @ = NoOutcome /\ o.code # LIBUSB_ERROR_TIMEOUT
                        THEN o ELSE @,
              !.finalAt = IF c.final = NoOutcome
                             /\ o.code # LIBUSB_ERROR_TIMEOUT
                          THEN NextAttempt(c.usb, attempts) ELSE @]

(* bulkTransfer's tail testing for the wrong error code before disconnecting *)
bulkTransferTail_WrongCode ==
    [d |-> IF bt.errorCode = LIBUSB_ERROR_NOT_FOUND
           THEN disconnectFromDevice ELSE Keep,
     ret |-> IF bt.errorCode < 0 THEN bt.errorCode ELSE bt.transferred]

(* the code after the retry loop of bulkTransfer *)
bulkTransferTail ==
    [d |-> IF bt.errorCode = LIBUSB_ERROR_NO_DEVICE
           THEN disconnectFromDevice ELSE Keep,
     ret |-> IF bt.errorCode < 0 THEN bt.errorCode ELSE bt.transferred]

BulkTransferCall ==
    /\ CanCall
    /\ calls' = calls + 1
    /\ \E length \in BulkLengths, attempts \in AttemptCounts :
          LET c == [NewCall("bulkTransfer") EXCEPT !.length = length,
                                                   !.attempts = attempts]
          IN IF NoHandle
             THEN /\ call' = [c EXCEPT !.done = TRUE,
                                       !.ret = LIBUSB_ERROR_NO_DEVICE]
                  /\ UNCHANGED <<pc, bt>>
             ELSE /\ call' = c
                  /\ pc' = "bulk"
                  /\ bt' = StartBulk(length, attempts, "api", 0, 0)
    /\ UNCHANGED <<config, life, object, stopTransfer, driver, ct, brm>>
    /\ received' = NotWritten

(* one pass of the retry loop: one libusb_bulk_transfer *)
BulkAttempt ==
    /\ life = "alive"
    /\ pc = "bulk"
    /\ Retry(bt.attempt, bt.attempts, bt.errorCode)
    /\ \E o \in Outcomes(bt.length) :
          /\ bt' = [bt EXCEPT !.errorCode = o.code, !.transferred = o.n,
                              !.attempt = NextAttempt(@, bt.attempts)]
          /\ call' = IF bt.cont = "api" THEN Attempted(call, o, bt.attempts)
                     ELSE [call EXCEPT !.usb = @ + 1]
    /\ UNCHANGED <<config, life, object, stopTransfer, driver, calls, pc, ct,
                   brm, received>>

(* bulkTransfer called by the user of the class returns *)
BulkTransferReturn ==
    /\ life = "alive"
    /\ pc = "bulk"
    /\ bt.cont = "api"
    /\ ~Retry(bt.attempt, bt.attempts, bt.errorCode)
    /\ LET t == bulkTransferTail
       IN /\ Disconnect(t.d)
          /\ unrefCalls' = unrefCalls + t.d.unrefs
          /\ call' = [Disconnecting(call, t.d) EXCEPT !.done = TRUE,
                                                      !.ret = t.ret]
    /\ pc' = "idle"
    /\ bt' = NoBT
    /\ UNCHANGED <<config, life, device, inPacketLength, outPacketLength,
                   stopTransfer, calls, ct, brm, received>>

(* ----------------------------------------------------- controlTransfer() *)
ControlLengths == {0, 2}

ControlTransferCall ==
    /\ CanCall
    /\ calls' = calls + 1
    /\ \E length \in ControlLengths, attempts \in AttemptCounts :
          LET c == [NewCall("controlTransfer") EXCEPT !.length = length,
                                                      !.attempts = attempts]
          IN IF NoHandleOrDisconnected
             THEN /\ call' = [c EXCEPT !.done = TRUE,
                                       !.ret = LIBUSB_ERROR_NO_DEVICE]
                  /\ UNCHANGED <<pc, ct>>
             ELSE /\ call' = c
                  /\ pc' = "ctrl"
                  /\ ct' = [length |-> length, attempts |-> attempts,
                            attempt |-> 0, errorCode |-> LIBUSB_ERROR_TIMEOUT]
    /\ UNCHANGED <<config, life, object, stopTransfer, driver, bt, brm>>
    /\ received' = NotWritten

(* one pass of the retry loop: one libusb_control_transfer, which returns  *)
(* the byte count or a negative error code                                 *)
ControlAttempt ==
    /\ life = "alive"
    /\ pc = "ctrl"
    /\ Retry(ct.attempt, ct.attempts, ct.errorCode)
    /\ \E o \in Outcomes(U16(ct.length)) :
          /\ ct' = [ct EXCEPT !.errorCode = OutcomeValue(o),
                              !.attempt = NextAttempt(@, ct.attempts)]
          /\ call' = Attempted(call, o, ct.attempts)
    /\ UNCHANGED <<config, life, object, stopTransfer, driver, calls, pc, bt,
                   brm, received>>

(* controlTransfer's tail disconnecting on every error code *)
controlTransferTail_AnyError ==
    [d |-> IF ct.errorCode < 0 THEN disconnectFromDevice ELSE Keep,
     ret |-> ct.errorCode]

(* the code after the retry loop of controlTransfer *)
controlTransferTail ==
    [d |-> IF ct.errorCode = LIBUSB_ERROR_NO_DEVICE
           THEN disconnectFromDevice ELSE Keep,
     ret |-> ct.errorCode]

ControlTransferReturn ==
    /\ life = "alive"
    /\ pc = "ctrl"
    /\ ~Retry(ct.attempt, ct.attempts, ct.errorCode)
    /\ LET t == controlTransferTail
       IN /\ Disconnect(t.d)
          /\ unrefCalls' = unrefCalls + t.d.unrefs
          /\ call' = [Disconnecting(call, t.d) EXCEPT !.done = TRUE,
                                                      !.ret = t.ret]
    /\ pc' = "idle"
    /\ ct' = NoCT
    /\ UNCHANGED <<config, life, device, inPacketLength, outPacketLength,
                   stopTransfer, calls, bt, brm, received>>

(* ------------------------------------------------------- bulkReadMulti() *)
ReadLengths ==
    {0, 1, packetLength + 1}
    \cup {k * packetLength : k \in 1..MaxChunks}

(* one bulkTransfer of a bulkReadMulti: buffer offset, length, result *)
Issued(off, len, timeout) ==
    [off |-> off, len |-> len, timeout |-> timeout, done |-> FALSE, ret |-> 0]

Answered(log, ret) ==
    [log EXCEPT ![Len(log)] = [@ EXCEPT !.done = TRUE, !.ret = ret]]

(* the condition of the chunk loop *)
MoreChunks == received < brm.length /\ brm.retCode = packetLength

(* the chunk loop without the look at the stop flag *)
ContinueLoop_NoStopCheck == MoreChunks

(* head of the chunk loop: its condition, then the look at the stop flag *)
ContinueLoop == MoreChunks /\ ~hasStopped

(* the chunked branch returning the last chunk's result as it is *)
ChunkedResult_LastCode == brm.retCode

(* the value the chunked branch returns after its loop *)
ChunkedResult == IF received > 0 THEN received ELSE brm.retCode

(* bulk branch: HANTEK_TIMEOUT_MULTI * length / inPacketLength; a division *)
(* by zero either stops the process or yields some value (0 here)          *)
BulkTimeout(length) ==
    IF inPacketLength = 0 THEN 0
    ELSE (HANTEK_TIMEOUT_MULTI * length) \div inPacketLength

BulkReadMultiCall ==
    /\ CanCall
    /\ calls' = calls + 1
    /\ \E length \in ReadLengths, small \in BOOLEAN,
          attempts \in 1..MaxMultiAttempts :
          LET c == [NewCall("bulkReadMulti") EXCEPT !.length = length,
                                                    !.attempts = attempts,
                                                    !.small = small]
          IN IF NoHandleOrDisconnected
             THEN /\ call' = [c EXCEPT !.done = TRUE,
                                       !.ret = LIBUSB_ERROR_NO_DEVICE]
                  /\ received' = NotWritten
                  /\ UNCHANGED <<pc, bt, brm, life>>
             ELSE IF small
             THEN /\ call' = c
                  /\ received' = 0
                  /\ brm' = [length |-> length, attempts |-> attempts,
                             packet |-> 0, retCode |-> packetLength]
                  /\ pc' = "multi"
                  /\ UNCHANGED <<bt, life>>
             ELSE IF hasStopped
             THEN /\ call' = [c EXCEPT !.done = TRUE, !.ret = 0]
                  /\ received' = NotWritten
                  /\ UNCHANGED <<pc, bt, brm, life>>
             ELSE \/ /\ call' = [c EXCEPT !.log =
                                   <<Issued(0, length, BulkTimeout(length))>>]
                     /\ received' = NotWritten
                     /\ brm' = [length |-> length, attempts |-> attempts,
                                packet |-> 0, retCode |-> 0]
                     /\ bt' = StartBulk(length, attempts, "big", 0,
                                        BulkTimeout(length))
                     /\ pc' = "bulk"
                     /\ UNCHANGED life
                  \/ /\ inPacketLength = 0
                     /\ call' = [c EXCEPT !.op = "crash", !.done = TRUE]
                     /\ received' = NotWritten
                     /\ life' = "crashed"
                     /\ UNCHANGED <<pc, bt, brm>>
    /\ UNCHANGED <<config, object, stopTransfer, driver, ct>>

(* head and body of the chunk loop: the stop flag is looked at, then the   *)
(* next chunk is handed to bulkTransfer                                    *)
MultiChunk ==
    /\ life = "alive"
    /\ pc = "multi"
    /\ ContinueLoop
    /\ LET off == brm.packet * packetLength
           len == Min(brm.length - received, packetLength)
           tmo == HANTEK_TIMEOUT_MULTI * 10
       IN IF NoHandle
          THEN /\ brm' = [brm EXCEPT !.retCode = LIBUSB_ERROR_NO_DEVICE,
                                     !.packet = @ + 1]
               /\ call' = [call EXCEPT !.log =
                             Answered(Append(@, Issued(off, len, tmo)),
                                      LIBUSB_ERROR_NO_DEVICE)]
               /\ UNCHANGED <<pc, bt>>
          ELSE /\ bt' = StartBulk(len, brm.attempts, "chunk", off, tmo)
               /\ call' = [call EXCEPT !.log = Append(@, Issued(off, len, tmo))]
               /\ pc' = "bulk"
               /\ UNCHANGED brm
    /\ UNCHANGED <<config, life, object, stopTransfer, driver, calls, ct,
                   received>>

(* the bulkTransfer of a chunk returns into the loop *)
ChunkReturn ==
    /\ life = "alive"
    /\ pc = "bulk"
    /\ bt.cont = "chunk"
    /\ ~Retry(bt.attempt, bt.attempts, bt.errorCode)
    /\ LET t == bulkTransferTail
       IN /\ Disconnect(t.d)
          /\ unrefCalls' = unrefCalls + t.d.unrefs
          /\ call' = [Disconnecting(call, t.d)
                      EXCEPT !.log = Answered(@, t.ret)]
          /\ brm' = [brm EXCEPT !.retCode = t.ret, !.packet = @ + 1]
          /\ received' = IF t.ret > 0 THEN received + t.ret ELSE received
    /\ pc' = "multi"
    /\ bt' = NoBT
    /\ UNCHANGED <<config, life, device, inPacketLength, outPacketLength,
                   stopTransfer, calls, ct>>

(* the chunk loop ends (condition false, or break on the stop flag) *)
MultiReturn ==
    /\ life = "alive"
    /\ pc = "multi"
    /\ ~ContinueLoop
    /\ call' = [call EXCEPT !.done = TRUE, !.ret = ChunkedResult]
    /\ pc' = "idle"
    /\ brm' = NoBRM
    /\ UNCHANGED <<config, life, object, stopTransfer, driver, calls, bt, ct,
                   received>>

(* the single bulkTransfer of the bulk branch returns *)
BigReturn ==
    /\ life = "alive"
    /\ pc = "bulk"
    /\ bt.cont = "big"
    /\ ~Retry(bt.attempt, bt.attempts, bt.errorCode)
    /\ LET t == bulkTransferTail
       IN /\ Disconnect(t.d)
          /\ unrefCalls' = unrefCalls + t.d.unrefs
          /\ call' = [Disconnecting(call, t.d)
                      EXCEPT !.log = Answered(@, t.ret), !.done = TRUE,
                             !.ret = t.ret]
          /\ received' = IF t.ret < 0 THEN 0 ELSE t.ret
    /\ stopTransfer' = FALSE
    /\ pc' = "idle"
    /\ bt' = NoBT
    /\ brm' = NoBRM
    /\ UNCHANGED <<config, life, device, inPacketLength, outPacketLength,
                   calls, ct>>

(* After libusb_unref_device the object no longer owns a reference to      *)
(* `device`; a later libusb call on it is a use of a possibly freed        *)
(* object, and one outcome is that the process dies.                       *)
UseAfterUnref ==
    /\ CanCall
    /\ device # NULL
    /\ unrefCalls >= 1
    /\ calls' = calls + 1
    /\ life' = "crashed"
    /\ call' = [NewCall("crash") EXCEPT !.done = TRUE]
    /\ UNCHANGED <<config, object, stopTransfer, driver, pc, frames>>
    /\ received' = NotWritten

(* ------------------------------------------------------- ~ScopeDevice() *)
Destructor ==
    /\ CanCall
    /\ calls' = calls + 1
    /\ LET d == disconnectFromDevice
           w == IF osWin /\ device # NULL THEN 1 ELSE 0
       IN /\ Disconnect(d)
          /\ unrefCalls' = unrefCalls + d.unrefs + w
          /\ call' = [Disconnecting(NewCall("destructor"), d)
                      EXCEPT !.done = TRUE, !.unrefs = @ + w]
    /\ device' = IF osWin THEN NULL ELSE device
    /\ life' = "destroyed"
    /\ UNCHANGED <<config, inPacketLength, outPacketLength, stopTransfer, pc,
                   frames>>
    /\ received' = NotWritten

(* -------------------------------------------------------- stopSampling() *)
stopSampling ==
    /\ life = "alive"
    /\ stopTransfer' = TRUE
    /\ call' = IF pc = "idle"
               THEN [NoCall EXCEPT !.op = "stopSampling"]
               ELSE IF call.op = "bulkReadMulti" /\ call.stopMark = -1
                    THEN [call EXCEPT !.stopMark = Len(call.log)]
                    ELSE call
    /\ UNCHANGED <<config, life, object, driver, calls, pc, frames, received>>

Next ==
    \/ ConnectCall
    \/ UseAfterUnref
    \/ DisconnectCall
    \/ Destructor
    \/ BulkTransferCall
    \/ BulkAttempt
    \/ BulkTransferReturn
    \/ ControlTransferCall
    \/ ControlAttempt
    \/ ControlTransferReturn
    \/ BulkReadMultiCall
    \/ MultiChunk
    \/ ChunkReturn
    \/ MultiReturn
    \/ BigReturn
    \/ stopSampling

Spec == Init /\ [][Next]_vars

(* ------------------------------------- the functions of the object alone *)
(* computeUSBdeviceID and needsFirmware depend on no state of the          *)
(* transport: they are applied once to inputs drawn at the start.          *)
PureInit ==
    /\ realHW = TRUE
    /\ osWin = FALSE
    /\ \/ /\ descriptor = [idVendor |-> 1205, idProduct |-> 24610,
                            bcdDevice |-> 512]
          /\ probe \in [mode : {"id"}, a : UsbDevices, b : UsbDevices,
                         done : {FALSE}, uidA : {Zero64}, uidB : {Zero64},
                         fw : {FALSE}]
       \/ /\ descriptor \in WideDescriptors
          /\ probe = [NoProbe EXCEPT !.mode = "fw"]
    /\ Constructed

ComputeIds ==
    /\ probe.mode = "id"
    /\ ~probe.done
    /\ probe' = [probe EXCEPT !.done = TRUE,
                              !.uidA = computeUSBdeviceID(probe.a),
                              !.uidB = computeUSBdeviceID(probe.b)]
    /\ UNCHANGED <<realHW, osWin, model, descriptor, life, object,
                   stopTransfer, driver, calls, pc, frames, received, call>>

CheckFirmware ==
    /\ probe.mode = "fw"
    /\ ~probe.done
    /\ probe' = [probe EXCEPT !.done = TRUE, !.fw = needsFirmware]
    /\ UNCHANGED <<realHW, osWin, model, descriptor, life, object,
                   stopTransfer, driver, calls, pc, frames, received, call>>

PureNext ==
    \/ ComputeIds
    \/ CheckFirmware

PureSpec == PureInit /\ [][PureNext]_vars

(* ============================================================ properties *)
Transfers == {"bulkTransfer", "controlTransfer"}

(* a call of op has returned and nothing has happened since *)
Returned(op) == call.op = op /\ call.done /\ life = "alive"

RECURSIVE Bytes(_, _)
(* the bytes delivered by the first k transfers of a log *)
Bytes(log, k) ==
    IF k = 0 THEN 0
    ELSE Bytes(log, k - 1) + (IF log[k].ret > 0 THEN log[k].ret ELSE 0)

(* the transfers of the log that gave a negative result *)
Failed(log) == { i \in 1..Len(log) : log[i].done /\ log[i].ret < 0 }

(* C1: a transfer of a connected real device whose underlying call answers *)
(* "no device" returns with isConnected() false, the handle null, the      *)
(* claimed interface -1, and has emitted exactly one deviceDisconnected.   *)
C1_NoDeviceDisconnects ==
    (/\ realHW
     /\ call.op \in Transfers
     /\ call.done
     /\ call.pre
     /\ call.final.code = LIBUSB_ERROR_NO_DEVICE)
    => (/\ ~isConnected
        /\ handle = NULL
        /\ nInterface = -1
        /\ call.emits = 1
        /\ call.ret = LIBUSB_ERROR_NO_DEVICE)

C1_Witness ==
    /\ realHW
    /\ Returned("bulkTransfer")
    /\ call.pre
    /\ call.final.code = LIBUSB_ERROR_NO_DEVICE
    /\ call.usb >= 2
    /\ ~isConnected

(* C2: for a real device the number of deviceDisconnected signals emitted  *)
(* equals the number of transitions of isConnected() from true to false.   *)
C2_OneNotificationPerTransition == realHW => emitted = transitions

(* C3: when connectDevice of a real device returns failure, isConnected()  *)
(* is false and the handle is null.                                        *)
C3_FailedConnectHoldsNoHandle ==
    (realHW /\ call.op = "connectDevice" /\ call.done /\ call.ret = 0)
    => (~isConnected /\ handle = NULL)

(* C4: a transfer of a connected device with attempt count N >= 1 whose    *)
(* underlying call times out every time makes exactly N underlying calls,  *)
(* returns LIBUSB_ERROR_TIMEOUT and leaves the device connected.           *)
C4_TimeoutAfterNAttempts ==
    (/\ call.op \in Transfers
     /\ call.done
     /\ call.pre
     /\ realHW
     /\ call.attempts >= 1
     /\ call.allTimeout)
    => (/\ call.usb = call.attempts
        /\ call.ret = LIBUSB_ERROR_TIMEOUT
        /\ isConnected
        /\ call.emits = 0)

C4_Witness ==
    /\ Returned("controlTransfer")
    /\ realHW
    /\ call.pre
    /\ call.attempts = 3
    /\ call.allTimeout
    /\ call.usb = 3

(* C5: the first underlying attempt of a transfer that answers anything    *)
(* but a timeout is the last one made, and the transfer returns what that  *)
(* attempt answered (its error code, or else its byte count).              *)
C5_NonTimeoutEndsRetry ==
    (call.op \in Transfers /\ call.final # NoOutcome)
    => (/\ call.usb = call.finalAt
        /\ call.done => call.ret = OutcomeValue(call.final))

C5_Witness ==
    /\ Returned("bulkTransfer")
    /\ call.final.code = LIBUSB_ERROR_IO
    /\ call.finalAt = 2
    /\ call.attempts = 3
    /\ call.ret = LIBUSB_ERROR_IO

(* C6 as stated: whenever a bulk transfer of a bulkReadMulti gives a       *)
(* negative result, the call ends with received = 0 and returns that code. *)
C6_ErrorZeroesReceived ==
    (call.op = "bulkReadMulti" /\ call.done)
    => \A i \in Failed(call.log) :
          received = 0 /\ call.ret = call.log[i].ret

(* C6 amended: a negative result ends the read; when no earlier chunk has  *)
(* delivered bytes (always so in bulk mode) received = 0 and the error     *)
(* code is returned, otherwise received and the return value are the bytes *)
(* of the earlier chunks.                                                  *)
C6_ErrorAfterData ==
    (call.op = "bulkReadMulti" /\ call.done)
    => \A i \in Failed(call.log) :
          /\ i = Len(call.log)
          /\ received = Bytes(call.log, i - 1)
          /\ call.ret = IF Bytes(call.log, i - 1) = 0
                        THEN call.log[i].ret ELSE Bytes(call.log, i - 1)
          /\ ~call.small => received = 0 /\ call.ret = call.log[i].ret

C6_Witness ==
    /\ Returned("bulkReadMulti")
    /\ call.small
    /\ Len(call.log) = 2
    /\ call.log[1].ret = packetLength
    /\ call.log[2].ret = LIBUSB_ERROR_IO
    /\ received = packetLength
    /\ call.ret = packetLength

(* C7: a chunked bulkReadMulti of a connected device with no stop request  *)
(* and no failed transfer reads chunks of min(remaining, packetLength)     *)
(* bytes at the offset of the bytes received so far, stops exactly when    *)
(* the length is reached or a chunk comes back short, and both received    *)
(* and the return value are the sum of the bytes of its chunks.            *)
C7_ChunkedReadSum ==
    (/\ realHW
     /\ call.op = "bulkReadMulti"
     /\ call.done
     /\ call.small
     /\ call.pre
     /\ ~call.preStop
     /\ call.stopMark = -1
     /\ Failed(call.log) = {})
    => LET n == Len(call.log)
       IN /\ \A i \in 1..n :
                /\ call.log[i].off = Bytes(call.log, i - 1)
                /\ call.log[i].len = Min(call.length - Bytes(call.log, i - 1),
                                         packetLength)
                /\ i < n => call.log[i].ret = packetLength
          /\ \/ Bytes(call.log, n) = call.length
             \/ n > 0 /\ call.log[n].ret < packetLength
          /\ received = Bytes(call.log, n)
          /\ call.ret = Bytes(call.log, n)

(* C8: once the stop flag is set during a chunked bulkReadMulti no further *)
(* chunk is handed to bulkTransfer (the chunk in flight completes), and    *)
(* the call returns with received = the bytes of the chunks issued till    *)
(* then; set after one full chunk, received = packetLength.                *)
C8_StopEndsChunkedRead ==
    (call.op = "bulkReadMulti" /\ call.small /\ call.stopMark >= 0)
    => (/\ Len(call.log) = call.stopMark
        /\ call.done
           => (/\ received = Bytes(call.log, call.stopMark)
               /\ (call.stopMark = 1 /\ call.log[1].ret = packetLength)
                  => received = packetLength))

C8_Witness ==
    /\ Returned("bulkReadMulti")
    /\ call.small
    /\ call.length = 3 * packetLength
    /\ call.stopMark = 1
    /\ call.log[1].ret = packetLength
    /\ received = packetLength

(* C9: a bulk-mode bulkReadMulti of a connected device makes at most one   *)
(* bulkTransfer, none when it finds the stop flag set, and returns with    *)
(* the stop flag cleared.                                                  *)
C9_BulkModeClearsStop ==
    (/\ realHW
     /\ call.op = "bulkReadMulti"
     /\ call.done
     /\ ~call.small
     /\ call.pre)
    => (/\ Len(call.log) <= 1
        /\ call.preStop => Len(call.log) = 0
        /\ ~stopTransfer)

(* C10: a disconnectFromDevice directly after a disconnectFromDevice       *)
(* leaves handle null, interface -1, disconnected set and releases         *)
(* neither handle nor interface nor device reference again.                *)
C10_SecondDisconnectIsNoOp ==
    (/\ realHW
     /\ call.op = "disconnectFromDevice"
     /\ call.again
     /\ call.done)
    => (/\ handle = NULL
        /\ nInterface = -1
        /\ disconnected
        /\ call.closes = 0
        /\ call.releases = 0
        /\ call.unrefs = 0)

(* what does hold of a chunked read of at least one byte (see C7) *)
ChunkedReadSumPositive == call.length >= 1 => C7_ChunkedReadSum

(* C11: for a real device libusb_unref_device is not called while the      *)
(* object lives and is called exactly once by its destruction.             *)
C11_OneUnrefAtDestruction ==
    realHW => (/\ life = "alive" => unrefCalls = 0
               /\ life = "destroyed" => unrefCalls = 1)

(* C12: bulkTransfer, bulkReadMulti and controlTransfer entered with a     *)
(* null handle return an error code at once: no underlying transfer, no    *)
(* change of the device state, no deviceDisconnected.                      *)
C12_NoHandleRejected ==
    [][(/\ pc = "idle"
        /\ calls' = calls + 1
        /\ call'.op \in Transfers \cup {"bulkReadMulti"}
        /\ handle = NULL)
       => (/\ pc' = "idle"
           /\ call'.done
           /\ call'.ret < 0
           /\ call'.usb = 0
           /\ call'.log = <<>>
           /\ call'.emits = 0
           /\ UNCHANGED <<object, stopTransfer, driver, life>>)]_vars

C12_Witness ==
    /\ realHW
    /\ Returned("bulkTransfer")
    /\ call.preHandle = NULL
    /\ call.attempts = 2
    /\ call.ret = LIBUSB_ERROR_NO_DEVICE
    /\ call.usb = 0

(* C13: a connected real device stops being connected, or has its handle   *)
(* or claimed interface changed, only by disconnectFromDevice, by the      *)
(* destructor, or by the return of a transfer whose last underlying        *)
(* result was LIBUSB_ERROR_NO_DEVICE; a transfer that ends in success, in  *)
(* exhausted timeouts or in another error leaves all three as they were.   *)
C13_OnlyNoDeviceDisconnects ==
    [][(/\ realHW
        /\ isConnected
        /\ \/ ~isConnected'
           \/ handle' # handle
           \/ nInterface' # nInterface)
       => (\/ call'.op \in {"disconnectFromDevice", "destructor"}
           \/ pc = "bulk" /\ bt.errorCode = LIBUSB_ERROR_NO_DEVICE
           \/ pc = "ctrl" /\ ct.errorCode = LIBUSB_ERROR_NO_DEVICE)]_vars

C13_Witness ==
    /\ realHW
    /\ Returned("controlTransfer")
    /\ call.pre
    /\ call.usb = 2
    /\ call.ret = LIBUSB_ERROR_TIMEOUT
    /\ isConnected
    /\ handle = call.preHandle
    /\ nInterface # -1

(* C14: a device whose needsFirmware() is true is never opened: it holds   *)
(* no handle and no claimed interface, its state is not Connected, a real  *)
(* one is not isConnected(), and every connectDevice on it returns false.  *)
C14_FirmwareBlocksConnect ==
    needsFirmware
    => (/\ handle = NULL
        /\ openHandles = 0
        /\ nInterface = -1
        /\ disconnected
        /\ realHW => ~isConnected
        /\ (call.op = "connectDevice" /\ call.done) => call.ret = 0)

C14_Witness ==
    /\ realHW
    /\ needsFirmware
    /\ descriptor.bcdDevice < model.firmwareVersion
    /\ Returned("connectDevice")
    /\ call.again
    /\ call.ret = 0
    /\ handle = NULL

(* C15: the demo device is isConnected() in every state, also after        *)
(* disconnectFromDevice, and none of its operations makes a libusb call    *)
(* or emits deviceDisconnected; a real device is isConnected() exactly     *)
(* when it is not marked disconnected and holds an open handle.            *)
C15_DemoAlwaysConnected ==
    /\ ~realHW
       => (/\ isConnected
           /\ handle = NULL
           /\ call.usb = 0
           /\ call.log = <<>>
           /\ call.closes = 0 /\ call.releases = 0 /\ call.unrefs = 0
           /\ openHandles = 0
           /\ unrefCalls = 0
           /\ emitted = 0)
    /\ realHW
       => (/\ isConnected <=> (~disconnected /\ handle = OPEN)
           /\ handle = OPEN => openHandles >= 1)

C15_Witness ==
    /\ ~realHW
    /\ Returned("disconnectFromDevice")
    /\ calls >= 2
    /\ disconnected
    /\ isConnected

(* C16: when the bulk branch of bulkReadMulti issues its transfer, the     *)
(* divisor inPacketLength recorded by the claim is not zero and the        *)
(* timeout handed over is larger than the timeout of every shorter length. *)
C16_BulkTimeoutIncreasing ==
    (/\ call.op = "bulkReadMulti"
     /\ ~call.small
     /\ Len(call.log) = 1)
    => (/\ inPacketLength > 0
        /\ \A L1 \in ReadLengths :
              L1 < call.length => BulkTimeout(L1) < call.log[1].timeout)

(* C17: a bulkTransfer or controlTransfer with attempts = -1 never returns *)
(* LIBUSB_ERROR_TIMEOUT; while every underlying attempt so far has timed   *)
(* out its loop goes on, and once an attempt answers anything else the     *)
(* loop ends and the transfer returns what that attempt answered.          *)
C17_UnboundedRetry ==
    (call.op \in Transfers /\ call.attempts = -1)
    => (/\ call.done => call.ret # LIBUSB_ERROR_TIMEOUT
        /\ (call.done /\ call.preHandle # NULL /\ call.ret # LIBUSB_ERROR_NO_DEVICE)
           => (/\ call.usb >= 1
               /\ call.final # NoOutcome
               /\ call.ret = OutcomeValue(call.final))
        /\ (~call.done /\ call.allTimeout)
           => (/\ pc = "bulk" => Retry(bt.attempt, bt.attempts, bt.errorCode)
               /\ pc = "ctrl" => Retry(ct.attempt, ct.attempts, ct.errorCode))
        /\ (~call.done /\ ~call.allTimeout)
           => (/\ call.usb = call.finalAt
               /\ pc = "bulk" => ~Retry(bt.attempt, bt.attempts, bt.errorCode)
               /\ pc = "ctrl" => ~Retry(ct.attempt, ct.attempts, ct.errorCode)))

C17_Witness ==
    /\ Returned("bulkTransfer")
    /\ call.attempts = -1
    /\ call.usb = 3
    /\ call.finalAt = 3
    /\ call.final.code = LIBUSB_SUCCESS
    /\ call.ret = call.final.n

(* the inputs two devices are told apart by *)
SameInputs(a, b) ==
    /\ a.bus = b.bus
    /\ a.ports = b.ports
    /\ a.idVendor = b.idVendor
    /\ a.bcdDevice = b.bcdDevice

(* bus and ports within the four bits the identifier has for each *)
FourBit(dev) ==
    /\ dev.bus \in 0..15
    /\ Len(dev.ports) <= treeSize
    /\ \A i \in 1..Len(dev.ports) : dev.ports[i] \in 1..15

(* C18 as stated: two devices get the same identifier iff they have the    *)
(* same bus number, port path, vendor ID and firmware version.             *)
C18_IdentifierInjective ==
    (probe.mode = "id" /\ probe.done)
    => (probe.uidA = probe.uidB <=> SameInputs(probe.a, probe.b))

(* C18 amended: two devices whose bus number is at most 15 and whose port  *)
(* numbers are 1..15 get the same identifier iff they have the same bus    *)
(* number, port path, vendor ID and firmware version.                      *)
C18_InjectiveOnFourBits ==
    (probe.mode = "id" /\ probe.done /\ FourBit(probe.a) /\ FourBit(probe.b))
    => (probe.uidA = probe.uidB <=> SameInputs(probe.a, probe.b))

C18_Witness ==
    /\ probe.mode = "id"
    /\ probe.done
    /\ probe.a = [bus |-> 2, ports |-> <<1, 1, 1, 1, 1, 1, 1>>,
                  idVendor |-> 1205, bcdDevice |-> 512]
    /\ probe.b = [probe.a EXCEPT !.ports = <<1, 1, 1, 1, 1, 1, 2>>]
    /\ probe.uidA = <<2, 1, 1, 1, 1, 1, 1, 1, 0, 4, 11, 5, 0, 2, 0, 0>>
    /\ probe.uidB = <<2, 1, 1, 1, 1, 1, 1, 2, 0, 4, 11, 5, 0, 2, 0, 0>>

(* C19: needsFirmware() is true iff the vendor ID or the product ID of the *)
(* descriptor differs from the model's or the descriptor's firmware        *)
(* version is below the model's; with equal IDs and a firmware version     *)
(* equal to the model's it is false.                                       *)
C19_NeedsFirmwareIff ==
    (probe.mode = "fw" /\ probe.done)
    => (/\ probe.fw <=> ~(/\ descriptor.idVendor = model.vendorID
                          /\ descriptor.idProduct = model.productID
                          /\ descriptor.bcdDevice >= model.firmwareVersion)
        /\ (/\ descriptor.idVendor = 1205
            /\ descriptor.idProduct = 24610
            /\ descriptor.bcdDevice = 512) => ~probe.fw)

C19_Witness ==
    /\ probe.mode = "fw"
    /\ probe.done
    /\ descriptor = [idVendor |-> 1205, idProduct |-> 24610,
                     bcdDevice |-> 512]
    /\ model.firmwareVersion = 512
    /\ ~probe.fw

(* C20: a call on a real device makes an underlying libusb transfer only   *)
(* if isConnected() was true when the call began.                          *)
C20_TransfersOnlyWhenConnected ==
    (/\ realHW
     /\ call.op \in Transfers \cup {"bulkReadMulti"}
     /\ call.usb > 0)
    => call.pre

====
